---- MODULE Spec2Model ----
(***************************************************************************)
(* Model of spotifyplot.py: top_artists runs load_data, preprocess_data,   *)
(* calculate_metrics and create_plot in sequence on the files of a         *)
(* directory.  A DataFrame is its set of columns and its sequence of rows; *)
(* a row is its index label and the cells that are not missing (a cell     *)
(* that is absent from a row is NaN).                                      *)
(***************************************************************************)
EXTENDS Integers, Sequences, FiniteSets, TLC

VARIABLES
    fs,                \* the directory at filepath: exists, files in os.listdir order
    num_artists,       \* top_artists' num_artists
    excluded_artists,  \* top_artists' excluded_artists
    pc,                \* position of top_artists
    err,               \* the exception that left top_artists, or NoError
    data_df,           \* the DataFrame object load_data returned
    given,             \* history: data_df as load_data returned it
    df,                \* the DataFrame object preprocess_data returned
    df_top_artists,    \* calculate_metrics' result
    listed,            \* os.listdir has been called
    opened,            \* indices of the files open() was called on
    image,             \* number of times top_artists.png was written
    trace              \* history: the stages entered, in order

vars == <<fs, num_artists, excluded_artists, pc, err, data_df, given, df,
          df_top_artists, listed, opened, image, trace>>

-----------------------------------------------------------------------------
(* Bounds of the model *)

\* The size of a directory: one per file, one per line, one per object of an
\* array.
MaxWeight == 4
\* The number of objects of an export.
MaxRows == 3

-----------------------------------------------------------------------------
(* Column names and values *)

ArtistCol == "master_metadata_album_artist_name"
EpisodeCol == "episode_show_name"
TsCol == "ts"
MsCol == "ms_played"
HoursCol == "ms_played_hours"
MinutesCol == "ms_played_minutes"

Null == "null"
BadTs == "not-a-date"

NoError == "none"
FileNotFoundError == "FileNotFoundError"
JSONDecodeError == "JSONDecodeError"
DateParseError == "DateParseError"
ValueError == "ValueError"
KeyError == "KeyError"

\* A variable that holds no object.
NoDF == [isNone |-> TRUE]

\* The cells of a JSON object that may hold null (ms_played holds a number).
IsNa(rec, col) ==
    IF col \in DOMAIN rec THEN (col # MsCol /\ col # HoursCol /\ col # MinutesCol /\ rec[col] = Null)
    ELSE TRUE

Min(a, b) == IF a < b THEN a ELSE b

Range(s) == {s[i] : i \in 1..Len(s)}

\* All sequences over S of length at most n.
RECURSIVE SeqsUpTo(_, _)
SeqsUpTo(S, n) ==
    IF n = 0 THEN {<<>>}
    ELSE LET shorter == SeqsUpTo(S, n - 1)
         IN shorter \cup {Append(s, x) : s \in {t \in shorter : Len(t) = n - 1}, x \in S}

-----------------------------------------------------------------------------
(* load_data *)

EndsWithJson(file) == file.ext = ".json"

\* Fault: object lines are not appended.
AddLineNoAppend(data, line) ==
    IF line.kind = "array" THEN data \o line.value ELSE data

\* data after one line: json.loads, then extend (list) or append (dict);
\* any other JSON value is dropped.
AddLine(data, line) ==
    IF line.kind = "array" THEN data \o line.value
    ELSE IF line.kind = "object" THEN Append(data, line.value[1])
    ELSE data

\* Fault: a line that is not JSON is skipped.
RECURSIVE ReadLinesSkip(_, _, _)
ReadLinesSkip(lines, i, data) ==
    IF i > Len(lines) THEN [err |-> NoError, data |-> data]
    ELSE IF lines[i].kind = "bad" THEN ReadLinesSkip(lines, i + 1, data)
    ELSE ReadLinesSkip(lines, i + 1, AddLine(data, lines[i]))

\* The lines of one file, from line i on: json.loads raises on a line that is
\* not JSON.
RECURSIVE ReadLines(_, _, _)
ReadLines(lines, i, data) ==
    IF i > Len(lines) THEN [err |-> NoError, data |-> data]
    ELSE IF lines[i].kind = "bad" THEN [err |-> JSONDecodeError, data |-> data]
    ELSE ReadLines(lines, i + 1, AddLine(data, lines[i]))

\* The loop over os.listdir(filepath), from file k on.
RECURSIVE ReadFiles(_, _, _, _)
ReadFiles(files, k, data, open) ==
    IF k > Len(files) THEN [err |-> NoError, data |-> data, opened |-> open]
    ELSE IF ~EndsWithJson(files[k]) THEN ReadFiles(files, k + 1, data, open)
    ELSE LET r == ReadLines(files[k].lines, 1, data)
         IN IF r.err # NoError
            THEN [err |-> r.err, data |-> r.data, opened |-> open \cup {k}]
            ELSE ReadFiles(files, k + 1, r.data, open \cup {k})

\* pd.DataFrame(data): the columns are the keys that occur, the index is 0..n-1.
DataFrame(data) ==
    [columns |-> UNION {DOMAIN data[i] : i \in 1..Len(data)},
     rows |-> [i \in 1..Len(data) |-> [idx |-> i - 1, rec |-> data[i]]]]

\* Fault: the path is not checked.
LoadDataNoCheck(path) ==
    LET r == ReadFiles(path.files, 1, <<>>, {})
    IN [err |-> r.err,
        df |-> IF r.err = NoError THEN DataFrame(r.data) ELSE NoDF,
        listed |-> TRUE, opened |-> r.opened]

LoadData(path) ==
    IF ~path.exists
    THEN [err |-> FileNotFoundError, df |-> NoDF, listed |-> FALSE, opened |-> {}]
    ELSE LET r == ReadFiles(path.files, 1, <<>>, {})
         IN [err |-> r.err,
             df |-> IF r.err = NoError THEN DataFrame(r.data) ELSE NoDF,
             listed |-> TRUE, opened |-> r.opened]

-----------------------------------------------------------------------------
(* preprocess_data *)

\* The rows from row i on that the boolean mask keeps.
RECURSIVE Masked(_, _, _)
Masked(rows, mask, i) ==
    IF i > Len(rows) THEN <<>>
    ELSE (IF mask[i] THEN <<rows[i]>> ELSE <<>>) \o Masked(rows, mask, i + 1)

\* df[mask]: a new object holding the rows the mask keeps, labels kept.
Filter(frame, mask) ==
    [columns |-> frame.columns, rows |-> Masked(frame.rows, mask, 1)]

NotPodcast(rec) == IsNa(rec, EpisodeCol)

\* Fault: the mask is not negated.
OnlyExcluded(rec, excluded) ==
    ~IsNa(rec, ArtistCol) /\ rec[ArtistCol] \in excluded

\* ~isin(excluded_artists): a missing artist is in no list of names.
NotExcluded(rec, excluded) ==
    IsNa(rec, ArtistCol) \/ rec[ArtistCol] \notin excluded

\* pd.to_datetime of one cell: a string that is no date raises.
Parses(rec) == IsNa(rec, TsCol) \/ rec[TsCol] # BadTs

ToDatetime(rec) ==
    IF TsCol \in DOMAIN rec
    THEN [rec EXCEPT ![TsCol] = IF rec[TsCol] = Null THEN "NaT"
                                ELSE "Timestamp(" \o rec[TsCol] \o ")"]
    ELSE rec

MsPerHour == 1000 * 60 * 60

\* Fault: the divisor lacks a factor 60.
WithDurationsPerMinute(rec) ==
    IF MsCol \in DOMAIN rec
    THEN (HoursCol :> [num |-> rec[MsCol], den |-> 1000 * 60])
         @@ (MinutesCol :> [num |-> rec[MsCol] * 60, den |-> 1000 * 60])
         @@ rec
    ELSE rec

\* df['ms_played'] / (1000*60*60) and df['ms_played_hours'] * 60, as exact
\* fractions; a missing ms_played gives missing cells.
WithDurations(rec) ==
    IF MsCol \in DOMAIN rec
    THEN (HoursCol :> [num |-> rec[MsCol], den |-> MsPerHour])
         @@ (MinutesCol :> [num |-> rec[MsCol] * 60, den |-> MsPerHour])
         @@ rec
    ELSE rec

\* df['ts'] = pd.to_datetime(df['ts'])
ConvertTs(frame) ==
    [frame EXCEPT !.rows = [i \in 1..Len(frame.rows) |->
        [frame.rows[i] EXCEPT !.rec = ToDatetime(frame.rows[i].rec)]]]

\* The two assignments of lines 51-52.
AddDurations(frame) ==
    [columns |-> frame.columns \cup {HoursCol, MinutesCol},
     rows |-> [i \in 1..Len(frame.rows) |->
        [frame.rows[i] EXCEPT !.rec = WithDurations(frame.rows[i].rec)]]]

\* The two filters, lines 42-45.
Excluding(frame, excluded) ==
    LET d1 == IF EpisodeCol \in frame.columns
              THEN Filter(frame, [i \in 1..Len(frame.rows) |->
                                     NotPodcast(frame.rows[i].rec)])
              ELSE frame
    IN IF ArtistCol \in d1.columns
       THEN Filter(d1, [i \in 1..Len(d1.rows) |->
                           NotExcluded(d1.rows[i].rec, excluded)])
       ELSE d1

\* df still names the caller's object when neither filter ran.
Aliased(frame) == EpisodeCol \notin frame.columns /\ ArtistCol \notin frame.columns

\* ret: the returned DataFrame; arg: the caller's DataFrame after the call.
PreprocessData(frame, excluded) ==
    LET d2 == Excluding(frame, excluded)
        hasTs == TsCol \in d2.columns
        hasMs == MsCol \in d2.columns
        tsOk == \A i \in 1..Len(d2.rows) : Parses(d2.rows[i].rec)
        d3 == IF hasTs THEN ConvertTs(d2) ELSE d2
        d4 == IF hasMs THEN AddDurations(d3) ELSE d3
    IN IF hasTs /\ ~tsOk
       THEN [err |-> DateParseError, ret |-> NoDF, arg |-> frame]
       ELSE [err |-> NoError, ret |-> d4,
             arg |-> IF Aliased(frame) THEN d4 ELSE frame]

-----------------------------------------------------------------------------
(* calculate_metrics *)

\* The artists of the rows whose artist is not missing.
ArtistsOf(frame) ==
    {frame.rows[i].rec[ArtistCol] :
        i \in {j \in 1..Len(frame.rows) : ~IsNa(frame.rows[j].rec, ArtistCol)}}

RowsOf(frame, artist) ==
    SelectSeq(frame.rows,
              LAMBDA row : ~IsNa(row.rec, ArtistCol) /\ row.rec[ArtistCol] = artist)

\* value_counts(): the number of rows of each artist (missing artists dropped).
Plays(frame, artist) == Len(RowsOf(frame, artist))

\* The orders value_counts() may return: by count, non-increasing; the order
\* among equal counts is the sort's.
ValueCountsOrders(frame) ==
    LET as == ArtistsOf(frame)
    IN {s \in SeqsUpTo(as, Cardinality(as)) :
          /\ Len(s) = Cardinality(as)
          /\ Range(s) = as
          /\ \A i \in 1..(Len(s) - 1) : Plays(frame, s[i]) >= Plays(frame, s[i + 1])}

\* Fault: head ignores n.
HeadAll(s, n) == s

\* Series.head(n): the first n entries; all but the last -n when n < 0.
HeadN(s, n) ==
    IF n >= 0 THEN SubSeq(s, 1, Min(n, Len(s)))
    ELSE IF Len(s) + n > 0 THEN SubSeq(s, 1, Len(s) + n) ELSE <<>>

\* The cells of a column that are not missing, as fractions.
Cells(rows, col) ==
    LET present == SelectSeq(rows, LAMBDA row : ~IsNa(row.rec, col))
    IN [i \in 1..Len(present) |-> present[i].rec[col]]

RECURSIVE SumNum(_)
SumNum(cells) ==
    IF cells = <<>> THEN 0 ELSE cells[1].num + SumNum(Tail(cells))

\* groupby(artist)[col].sum() for one artist: missing cells are skipped, the
\* sum of none is 0.
GroupSum(frame, artist, col) ==
    LET cells == Cells(RowsOf(frame, artist), col)
    IN IF cells = <<>> THEN [num |-> 0, den |-> 1]
       ELSE [num |-> SumNum(cells), den |-> cells[1].den]

\* groupby(artist)[col].mean() for one artist: the mean of none is NaN (den 0).
GroupMean(frame, artist, col) ==
    LET cells == Cells(RowsOf(frame, artist), col)
    IN IF cells = <<>> THEN [num |-> 0, den |-> 0]
       ELSE [num |-> SumNum(cells), den |-> cells[1].den * Len(cells)]

\* The DataFrame of lines 68-70: one row per artist of top, in top's order.
Metrics(frame, top) ==
    [rows |-> [i \in 1..Len(top) |->
        [artist |-> top[i],
         Plays |-> Plays(frame, top[i]),
         ListeningHours |-> GroupSum(frame, top[i], HoursCol),
         MeanTrackDuration |-> GroupMean(frame, top[i], MinutesCol)]]]

\* Fault: the artist column is not checked.
CalculateMetricsNoArtistCheck(frame, n, order) ==
    IF HoursCol \notin frame.columns \/ MinutesCol \notin frame.columns
    THEN [err |-> KeyError, result |-> NoDF]
    ELSE [err |-> NoError, result |-> Metrics(frame, HeadN(order, n))]

\* Fault: a missing duration column counts as empty.
CalculateMetricsNoKeyError(frame, n, order) ==
    IF ArtistCol \notin frame.columns
    THEN [err |-> ValueError, result |-> NoDF]
    ELSE [err |-> NoError, result |-> Metrics(frame, HeadN(order, n))]

\* order: the order value_counts() returned.  The artist column is looked
\* up first, then the two derived columns.
CalculateMetrics(frame, n, order) ==
    IF ArtistCol \notin frame.columns
    THEN [err |-> ValueError, result |-> NoDF]
    ELSE IF HoursCol \notin frame.columns \/ MinutesCol \notin frame.columns
    THEN [err |-> KeyError, result |-> NoDF]
    ELSE [err |-> NoError, result |-> Metrics(frame, HeadN(order, n))]

-----------------------------------------------------------------------------
(* create_plot *)

\* plt.savefig runs when save_to is given.
CreatePlot(written, save_to) ==
    IF save_to # "None" THEN written + 1 ELSE written

-----------------------------------------------------------------------------
(* top_artists *)

\* Fault: calculate_metrics' exception is swallowed.
AfterStageSwallow(done, e) ==
    IF e = NoError \/ done = "aggregated" THEN done ELSE "failed"

\* No stage is wrapped in try/except: an exception leaves top_artists.
AfterStage(done, e) == IF e = NoError THEN done ELSE "failed"

Load ==
    /\ pc = "start"
    /\ LET r == LoadData(fs)
       IN /\ pc' = AfterStage("loaded", r.err)
          /\ err' = r.err
          /\ data_df' = r.df
          /\ given' = r.df
          /\ listed' = r.listed
          /\ opened' = r.opened
    /\ trace' = Append(trace, "Load")
    /\ UNCHANGED <<fs, num_artists, excluded_artists, df, df_top_artists, image>>

Preprocess ==
    /\ pc = "loaded"
    /\ LET r == PreprocessData(data_df, excluded_artists)
       IN /\ pc' = AfterStage("preprocessed", r.err)
          /\ err' = r.err
          /\ df' = r.ret
          /\ data_df' = r.arg
    /\ trace' = Append(trace, "Preprocess")
    /\ UNCHANGED <<fs, num_artists, excluded_artists, given, df_top_artists,
                   listed, opened, image>>

Aggregate ==
    /\ pc = "preprocessed"
    /\ \E order \in (IF ArtistCol \in df.columns THEN ValueCountsOrders(df) ELSE {<<>>}) :
          LET r == CalculateMetrics(df, num_artists, order)
          IN /\ pc' = AfterStage("aggregated", r.err)
             /\ err' = r.err
             /\ df_top_artists' = r.result
    /\ trace' = Append(trace, "Aggregate")
    /\ UNCHANGED <<fs, num_artists, excluded_artists, data_df, given, df,
                   listed, opened, image>>

Plot ==
    /\ pc = "aggregated"
    /\ image' = CreatePlot(image, "top_artists.png")
    /\ pc' = "done"
    /\ trace' = Append(trace, "Plot")
    /\ UNCHANGED <<fs, num_artists, excluded_artists, err, data_df, given, df,
                   df_top_artists, listed, opened>>

Next == Load \/ Preprocess \/ Aggregate \/ Plot

-----------------------------------------------------------------------------
(* Inputs *)

Object(rec) == [kind |-> "object", value |-> <<rec>>]
Array(recs) == [kind |-> "array", value |-> recs]
BadLine == [kind |-> "bad", value |-> <<>>]
ScalarLine == [kind |-> "scalar", value |-> <<>>]

\* The artist main() excludes.
Peppa == "Peppa Pig"

\* JSON objects of the directories: a song, a song that has only its artist,
\* a podcast episode, an object without artist whose ts does not parse.
SampleRecords ==
    { (ArtistCol :> "a") @@ (MsCol :> 1) @@ (EpisodeCol :> Null) @@ (TsCol :> "t"),
      (ArtistCol :> Peppa),
      (ArtistCol :> Null) @@ (MsCol :> 1) @@ (EpisodeCol :> "show") @@ (TsCol :> "t"),
      (MsCol :> 2) @@ (TsCol :> BadTs) }

\* A line weighs 1, an array of n objects weighs 1 + n.
LinesOfWeight(w) ==
    IF w = 1
    THEN {BadLine, ScalarLine, Array(<<>>)} \cup {Object(r) : r \in SampleRecords}
    ELSE {Array(s) : s \in {t \in SeqsUpTo(SampleRecords, w - 1) : Len(t) = w - 1}}

\* The contents of weight w whose first line weighs at least k, given the
\* contents of each smaller weight.
RECURSIVE LineSeqsFrom(_, _, _)
LineSeqsFrom(less, w, k) ==
    IF k > w THEN {}
    ELSE {<<l>> \o rest : l \in LinesOfWeight(k), rest \in less[w - k]}
         \cup LineSeqsFrom(less, w, k + 1)

\* The files' contents of each weight up to w.
RECURSIVE LineSeqs(_)
LineSeqs(w) ==
    IF w = 0 THEN (0 :> {<<>>})
    ELSE LET less == LineSeqs(w - 1)
         IN (w :> LineSeqsFrom(less, w, 1)) @@ less

\* The listings of weight w whose first file weighs at least u: a file weighs
\* 1 more than its lines.
RECURSIVE ListingsFrom(_, _, _, _)
ListingsFrom(less, lines, w, u) ==
    IF u > w THEN {}
    ELSE {<<[ext |-> e, lines |-> ls]>> \o rest :
             e \in {".json", ".txt"}, ls \in lines[u - 1], rest \in less[w - u]}
         \cup ListingsFrom(less, lines, w, u + 1)

\* The listings of each weight up to w.
RECURSIVE Listings(_)
Listings(w) ==
    IF w = 0 THEN (0 :> {<<>>})
    ELSE LET less == Listings(w - 1)
         IN (w :> ListingsFrom(less, LineSeqs(w - 1), w, 1)) @@ less

RECURSIVE UpTo(_, _)
UpTo(table, w) == IF w = 0 THEN table[0] ELSE table[w] \cup UpTo(table, w - 1)

Directories ==
    {[exists |-> FALSE, files |-> <<>>]}
    \cup {[exists |-> TRUE, files |-> l] : l \in UpTo(Listings(MaxWeight), MaxWeight)}

Start ==
    /\ pc = "start"
    /\ err = NoError
    /\ data_df = NoDF
    /\ given = NoDF
    /\ df = NoDF
    /\ df_top_artists = NoDF
    /\ listed = FALSE
    /\ opened = {}
    /\ image = 0
    /\ trace = <<>>

\* main(): top_artists('MyData', num_artists=50, excluded_artists=[Peppa]).
Init ==
    /\ fs \in Directories
    /\ num_artists = 50
    /\ excluded_artists = {Peppa}
    /\ Start

Spec == Init /\ [][Next]_vars

\* top_artists called on an export in which every object has the same keys:
\* an empty directory, or one file of one array line.
FullRecords ==
    {(ArtistCol :> a) @@ (MsCol :> m) @@ (EpisodeCol :> e) @@ (TsCol :> t) :
        a \in {Null, "a", "b"}, m \in {1, 2}, e \in {Null, "show"}, t \in {"t"}}

RecordsWith(keys) == {[col \in keys |-> full[col]] : full \in FullRecords}

InitRows ==
    /\ \/ fs = [exists |-> TRUE, files |-> <<>>]
       \/ \E keys \in SUBSET {ArtistCol, MsCol, EpisodeCol, TsCol} :
          \E recs \in SeqsUpTo(RecordsWith(keys), MaxRows) :
             fs = [exists |-> TRUE,
                   files |-> <<[ext |-> ".json", lines |-> <<Array(recs)>>]>>]
    /\ num_artists \in {0, 1, 2}
    /\ excluded_artists \in {{}, {"a"}}
    /\ Start

SpecRows == InitRows /\ [][Next]_vars

-----------------------------------------------------------------------------
(* Properties *)

Ran(stage) == stage \in Range(trace)

LoadOk == Ran("Load") /\ given # NoDF

PreprocessOk == Ran("Preprocess") /\ df # NoDF

HasResult == df_top_artists # NoDF

JsonFiles == SelectSeq(fs.files, LAMBDA file : file.ext = ".json")

\* C1: when the path does not exist, load_data raises FileNotFoundError
\* before it lists the directory or opens a file and returns no dataset, and
\* top_artists fails with that error without running another stage.
C1_MissingPathNotFound ==
    (~fs.exists /\ Ran("Load")) =>
        /\ err = FileNotFoundError
        /\ pc = "failed"
        /\ ~listed
        /\ opened = {}
        /\ data_df = NoDF
        /\ trace = <<"Load">>

C1_Witness == ~fs.exists /\ pc = "failed"

NoArtistField ==
    \A i \in 1..Len(given.rows) : ArtistCol \notin DOMAIN given.rows[i].rec

\* C2: when no object of the loaded dataset has the artist key (the empty
\* dataset of a directory without .json files included), calculate_metrics
\* raises ValueError and returns nothing, whatever the other columns and
\* num_artists are.
C2_NoArtistValueError ==
    (LoadOk /\ NoArtistField /\ Ran("Aggregate")) =>
        /\ ArtistCol \notin df.columns
        /\ err = ValueError
        /\ pc = "failed"
        /\ df_top_artists = NoDF

C2_Witness ==
    /\ LoadOk /\ Ran("Aggregate")
    /\ JsonFiles = <<>>
    /\ given.rows = <<>>
    /\ err = ValueError

\* The rows of frame whose artist is a.
RowsWithArtist(frame, a) ==
    {i \in 1..Len(frame.rows) :
        /\ ArtistCol \in DOMAIN frame.rows[i].rec
        /\ frame.rows[i].rec[ArtistCol] = a}

RECURSIVE SumMs(_, _)
SumMs(frame, rows) ==
    IF rows = {} THEN 0
    ELSE LET i == CHOOSE j \in rows : TRUE
         IN (IF MsCol \in DOMAIN frame.rows[i].rec THEN frame.rows[i].rec[MsCol] ELSE 0)
            + SumMs(frame, rows \ {i})

\* C3: for every artist of the result, Plays is the number of rows of the
\* dataset given to calculate_metrics with that artist, and Listening Hours
\* is the sum of their ms_played divided by 3,600,000.
C3_SumsMatchManual ==
    HasResult =>
        \A k \in 1..Len(df_top_artists.rows) :
            LET top == df_top_artists.rows[k]
                mine == RowsWithArtist(df, top.artist)
            IN /\ top.Plays = Cardinality(mine)
               /\ top.ListeningHours.den > 0
               /\ top.ListeningHours.num * 3600000
                     = SumMs(df, mine) * top.ListeningHours.den

C3_Witness ==
    /\ HasResult
    /\ \E k \in 1..Len(df_top_artists.rows) :
          /\ df_top_artists.rows[k].Plays = 2
          /\ df_top_artists.rows[k].ListeningHours.num = 3

DistinctArtists(frame) ==
    {a \in {"a", "b", Peppa} : RowsWithArtist(frame, a) # {}}

BadLineInJsonFile ==
    \E k \in 1..Len(JsonFiles) : \E i \in 1..Len(JsonFiles[k].lines) :
        JsonFiles[k].lines[i].kind = "bad"

\* C5: a line of a .json file that is not JSON makes load_data fail with the
\* parser's error; the error leaves top_artists, load_data returns no
\* dataset, and no later stage runs.
C5_BadLinePropagates ==
    (fs.exists /\ BadLineInJsonFile /\ Ran("Load")) =>
        /\ err = JSONDecodeError
        /\ pc = "failed"
        /\ data_df = NoDF
        /\ df = NoDF
        /\ df_top_artists = NoDF
        /\ image = 0
        /\ trace = <<"Load">>

C5_Witness ==
    /\ pc = "failed"
    /\ err = JSONDecodeError
    /\ \E k \in 1..Len(JsonFiles) :
          /\ Len(JsonFiles[k].lines) = 2
          /\ JsonFiles[k].lines[1].kind = "object"
          /\ JsonFiles[k].lines[2].kind = "bad"

LacksOptional ==
    TsCol \notin given.columns \/ MsCol \notin given.columns
        \/ EpisodeCol \notin given.columns

\* C6 as stated: a loaded dataset with the artist column that lacks ts,
\* ms_played or episode_show_name makes the run fail, and no stage produces
\* an output for it.
C6_MissingOptionalFails ==
    (LoadOk /\ ArtistCol \in given.columns /\ LacksOptional /\ Ran("Aggregate")) =>
        /\ pc = "failed"
        /\ df_top_artists = NoDF
        /\ image = 0

\* C6, amended: a loaded dataset with the artist column that lacks ms_played
\* makes the run fail: once preprocess_data has returned, calculate_metrics
\* raises KeyError, which leaves top_artists, and there is no result and no
\* image.  A missing ts or episode_show_name column makes no stage fail:
\* with the artist and ms_played columns the only failure is a ts that does
\* not parse.
C6_MissingMsPlayedFails ==
    /\ (LoadOk /\ ArtistCol \in given.columns /\ MsCol \notin given.columns) =>
          /\ Ran("Aggregate") => (pc = "failed" /\ err = KeyError)
          /\ df_top_artists = NoDF
          /\ image = 0
          /\ pc \notin {"aggregated", "done"}
    /\ (LoadOk /\ ArtistCol \in given.columns /\ MsCol \in given.columns) =>
          /\ pc = "failed" => (err = DateParseError /\ TsCol \in given.columns)
          /\ Ran("Aggregate") => HasResult

C6_Witness ==
    /\ LoadOk
    /\ given.columns = {ArtistCol, TsCol, EpisodeCol}
    /\ Len(given.rows) = 2
    /\ Ran("Aggregate")
    /\ err = KeyError

RECURSIVE Concat(_)
Concat(seqs) == IF seqs = <<>> THEN <<>> ELSE seqs[1] \o Concat(Tail(seqs))

\* The objects of a file: one per object line and one per element of each
\* array line, in line order.
ObjectsOf(file) == Concat([i \in 1..Len(file.lines) |-> file.lines[i].value])

ObjectOrArrayLines ==
    \A k \in 1..Len(JsonFiles) : \A i \in 1..Len(JsonFiles[k].lines) :
        JsonFiles[k].lines[i].kind \in {"object", "array"}

\* C7: for a directory whose .json files hold an array or an object on every
\* line, the dataset of load_data holds one record per object line and one
\* per element of each array line, in line order within each file (files in
\* listing order), and nothing else.
C7_LoadHoldsEveryRecord ==
    (fs.exists /\ ObjectOrArrayLines /\ Ran("Load")) =>
        LET expected == Concat([k \in 1..Len(JsonFiles) |-> ObjectsOf(JsonFiles[k])])
        IN /\ LoadOk
           /\ Len(given.rows) = Len(expected)
           /\ \A i \in 1..Len(expected) :
                 given.rows[i].rec = expected[i] /\ given.rows[i].idx = i - 1
           /\ opened = {k \in 1..Len(fs.files) : fs.files[k].ext = ".json"}

C7_Witness ==
    /\ LoadOk
    /\ Len(fs.files) = 1
    /\ fs.files[1].ext = ".json"
    /\ Len(fs.files[1].lines) = 2
    /\ fs.files[1].lines[1].kind = "object"
    /\ fs.files[1].lines[2].kind = "array"
    /\ Len(given.rows) = 2
    /\ given.rows[1].rec # given.rows[2].rec

\* C8: preprocess_data leaves the DataFrame it is given unchanged, and the
\* derived columns appear only in the DataFrame it returns.
C8_PreprocessLeavesInput ==
    PreprocessOk =>
        /\ data_df = given
        /\ HoursCol \notin data_df.columns
        /\ MinutesCol \notin data_df.columns

Stages == <<"Load", "Preprocess", "Aggregate", "Plot">>

\* C9: the stages run at most once each, in the order Load, Preprocess,
\* Aggregate, Plot; the image is written at most once, only after the three
\* earlier stages completed without error; a failed run writes no image and
\* runs no further stage.
C9_StagesInOrder ==
    /\ Len(trace) <= Len(Stages)
    /\ trace = SubSeq(Stages, 1, Len(trace))
    /\ image \in {0, 1}
    /\ image = 1 => (trace = Stages /\ err = NoError /\ HasResult /\ PreprocessOk /\ LoadOk)
    /\ err # NoError => (pc = "failed" /\ image = 0)
    /\ pc = "failed" => (err # NoError /\ ~ENABLED Next)

C9_Witness == pc = "done" /\ image = 1 /\ Len(df_top_artists.rows) = 1

\* The rows preprocess_data is to keep.
Kept(frame, excluded) ==
    {i \in 1..Len(frame.rows) :
        LET rec == frame.rows[i].rec
        IN /\ EpisodeCol \in frame.columns =>
                 (EpisodeCol \notin DOMAIN rec \/ rec[EpisodeCol] = Null)
           /\ ArtistCol \in frame.columns =>
                 (ArtistCol \notin DOMAIN rec \/ rec[ArtistCol] \notin excluded)}

Original(rec) == [col \in DOMAIN rec \ {HoursCol, MinutesCol, TsCol} |-> rec[col]]

\* C10: the dataset preprocess_data returns holds exactly the rows of its
\* input, in input order, that have a null episode_show_name (when that
\* column exists) and an artist outside excluded_artists (when that column
\* exists); so no podcast play and no excluded artist is counted or listed
\* by calculate_metrics.
C10_KeepsExactlyUnexcluded ==
    PreprocessOk =>
        LET keep == Kept(given, excluded_artists)
        IN /\ {df.rows[i].idx + 1 : i \in 1..Len(df.rows)} = keep
           /\ Len(df.rows) = Cardinality(keep)
           /\ \A i \in 1..(Len(df.rows) - 1) : df.rows[i].idx < df.rows[i + 1].idx
           /\ \A i \in 1..Len(df.rows) :
                 Original(df.rows[i].rec) = Original(given.rows[df.rows[i].idx + 1].rec)
           /\ HasResult =>
                 \A k \in 1..Len(df_top_artists.rows) :
                    LET top == df_top_artists.rows[k]
                    IN /\ top.artist \notin excluded_artists
                       /\ top.Plays = Cardinality(RowsWithArtist(given, top.artist) \cap keep)

C10_Witness ==
    /\ HasResult
    /\ excluded_artists = {"a"}
    /\ Len(given.rows) = 3
    /\ Len(df.rows) = 1
    /\ \E i \in 1..3 : ~IsNa(given.rows[i].rec, EpisodeCol)
    /\ \E i \in 1..3 : ~IsNa(given.rows[i].rec, ArtistCol) /\ given.rows[i].rec[ArtistCol] = "a"
    /\ Len(df_top_artists.rows) = 1

====
